---- MODULE Spec2Model ----
(***************************************************************************)
(* DocChat AI: the storage schema with its row-level policies, the         *)
(* Dashboard, the DocumentSidebar and the ChatInterface, as a state        *)
(* machine.  Every awaited storage call is two steps: the server executes  *)
(* the request (…Exec) and later the client continues with the response    *)
(* (…Done); requests of different handler runs interleave freely.          *)
(***************************************************************************)
EXTENDS Bags, FiniteSets, Integers, Sequences, TLC

(***************************************************************************)
(* Bounds of the model.                                                    *)
(***************************************************************************)
MaxDocs == 2        \* documents rows inserted over a behaviour
MaxSessions == 2    \* chat_sessions rows inserted over a behaviour
MaxMsgs == 4        \* chat_messages rows inserted over a behaviour
MaxRuns == 2        \* handler runs in flight at the same time

(***************************************************************************)
(* What the user does in one behaviour is one of three visits, each with   *)
(* its own bounds on the selections, uploads, deletions and sends.         *)
(***************************************************************************)
BrowseSelects == 3
BrowseUploads == 2
BrowseDeletes == 1
BrowseSends == 0
ChatSelects == 1
ChatUploads == 1
ChatDeletes == 1
ChatSends == 3
ReturnSelects == 3
ReturnUploads == 2
ReturnDeletes == 0
ReturnSends == 1

Visits ==
  { [sel |-> BrowseSelects, up |-> BrowseUploads, del |-> BrowseDeletes,
     snd |-> BrowseSends],
    [sel |-> ChatSelects, up |-> ChatUploads, del |-> ChatDeletes,
     snd |-> ChatSends],
    [sel |-> ReturnSelects, up |-> ReturnUploads, del |-> ReturnDeletes,
     snd |-> ReturnSends] }

(***************************************************************************)
(* Users.  The application instance runs as AppUser; the storage API is    *)
(* open to every authenticated user.                                       *)
(***************************************************************************)
AppUser == 1
Users == {1, 2}
NoId == 0

(***************************************************************************)
(* Text is a sequence of characters.                                       *)
(***************************************************************************)
IsSpace(c) == c \in {" ", "\n"}

RECURSIVE TrimStart(_)
TrimStart(s) ==
  IF s # <<>> /\ IsSpace(Head(s)) THEN TrimStart(Tail(s)) ELSE s

RECURSIVE TrimEnd(_)
TrimEnd(s) ==
  IF s # <<>> /\ IsSpace(s[Len(s)]) THEN TrimEnd(SubSeq(s, 1, Len(s) - 1)) ELSE s

\* String.prototype.trim
Trim(s) == TrimEnd(TrimStart(s))

RECURSIVE Join(_, _)
\* Array.prototype.join: the items separated by sep
Join(items, sep) ==
  IF items = <<>> THEN <<>>
  ELSE IF Len(items) = 1 THEN items[1]
  ELSE items[1] \o sep \o Join(Tail(items), sep)

RECURSIVE PagesText(_)
\* the loop of extractTextFromPDF: fullText += pageText + "\n\n"
PagesText(pages) ==
  IF pages = <<>> THEN <<>>
  ELSE Join(pages[1], <<" ">>) \o <<"\n", "\n">> \o PagesText(Tail(pages))

extractTextFromPDF(file) == Trim(PagesText(file.pages))

PdfType == "application/pdf"

\* the files the user picks in the upload dialog
Files ==
  { [name |-> "b.md", type |-> "text/markdown", text |-> <<" ", "b", "\n">>,
     pages |-> <<>>],
    [name |-> "c.pdf", type |-> PdfType, text |-> <<>>,
     pages |-> << << <<"c">>, <<"d">> >>, << <<"e">> >> >>] }

\* what the user types into the chat input
Inputs == { <<" ", "q">> }

\* the answer of the chat-with-document function
Answer == <<"r">>

(***************************************************************************)
(* Storage: the three tables.                                              *)
(***************************************************************************)
VARIABLES
  documents,      \* table documents: set of rows
  chat_sessions,  \* table chat_sessions: set of rows
  chat_messages,  \* table chat_messages: set of rows
  now,            \* the server clock, read by DEFAULT now()
  nDocs, nSessions, nMsgs   \* rows inserted so far (gen_random_uuid)

(***************************************************************************)
(* Client state.                                                           *)
(***************************************************************************)
VARIABLES
  uiDocuments,         \* Dashboard: documents
  selectedDocId,       \* Dashboard: selectedDocId (NoId = null)
  selectedDocContent,  \* Dashboard: selectedDocContent
  messages,            \* ChatInterface: messages
  input,               \* ChatInterface: input
  loading,             \* ChatInterface: loading
  sessionId,           \* ChatInterface: sessionId (NoId = null)
  uploading,           \* DocumentSidebar: uploading
  toast,               \* the notification shown by the last step, or "none"
  locRuns,             \* loadOrCreateSession runs in flight (a bag)
  lmRuns,              \* loadMessages runs in flight (a bag)
  send,                \* the handleSend run in flight, or NoSend
  upRuns,              \* handleFileUpload runs in flight (a bag)
  delRuns,             \* handleDelete runs in flight (a bag)
  ldRuns,              \* loadDocuments runs in flight (a bag)
  api,                 \* the last direct storage API call and what it returned
  used,                \* the user's actions so far, by kind
  visit                \* the bounds on the user's actions in this behaviour

storage == <<documents, chat_sessions, chat_messages, now, nDocs, nSessions, nMsgs>>
dashboard == <<uiDocuments, selectedDocId, selectedDocContent>>
chat == <<messages, input, loading, sessionId>>
runs == <<locRuns, lmRuns, send, upRuns, delRuns, ldRuns>>
vars == <<storage, dashboard, chat, uploading, toast, runs, api, used, visit>>

(***************************************************************************)
(* Row-level policies.                                                     *)
(***************************************************************************)
\* "Users can view own documents"
DocSelectPolicy(uid, row) == uid = row.user_id
\* "Users can create documents"
DocInsertPolicy(uid, row) == uid = row.user_id
\* "Users can update own documents": USING on the old row, WITH CHECK on the new
DocUpdatePolicy(uid, old, new) == uid = old.user_id /\ uid = new.user_id
\* "Users can delete own documents"
DocDeletePolicy(uid, row) == uid = row.user_id
\* "Users can view own sessions"
SessSelectPolicy(uid, row) == uid = row.user_id
\* "Users can create sessions"
SessInsertPolicy(uid, row) == uid = row.user_id
\* "Users can delete own sessions"
SessDeletePolicy(uid, row) == uid = row.user_id
\* "Users can view messages from own sessions"
MsgSelectPolicy(uid, row, sessions) ==
  \E s \in sessions : s.id = row.session_id /\ s.user_id = uid
\* "Users can insert messages in own sessions"
MsgInsertPolicy(uid, row, sessions) ==
  \E s \in sessions : s.id = row.session_id /\ s.user_id = uid

(***************************************************************************)
(* Foreign keys.                                                           *)
(***************************************************************************)
\* chat_sessions.document_id REFERENCES documents(id)
SessFkOk(row, docs) == \E d \in docs : d.id = row.document_id
\* chat_messages.session_id REFERENCES chat_sessions(id)
MsgFkOk(row, sessions) == \E s \in sessions : s.id = row.session_id
\* the foreign key without ON DELETE CASCADE
MutCascadeSessions(docs, sessions) == sessions

\* ON DELETE CASCADE of chat_sessions.document_id
CascadeSessions(docs, sessions) ==
  {s \in sessions : \E d \in docs : d.id = s.document_id}
\* ON DELETE CASCADE of chat_messages.session_id
CascadeMessages(sessions, msgs) ==
  {m \in msgs : \E s \in sessions : s.id = m.session_id}

(***************************************************************************)
(* Queries.                                                                *)
(***************************************************************************)
RECURSIVE MutSortAsc(_)
\* ORDER BY created_at with the direction inverted
MutSortAsc(rows) ==
  IF rows = {} THEN <<>>
  ELSE LET r == CHOOSE x \in rows : \A y \in rows : x.created_at >= y.created_at
       IN <<r>> \o MutSortAsc(rows \ {r})

RECURSIVE SortAsc(_)
\* ORDER BY created_at ASC
SortAsc(rows) ==
  IF rows = {} THEN <<>>
  ELSE LET r == CHOOSE x \in rows : \A y \in rows : x.created_at <= y.created_at
       IN <<r>> \o SortAsc(rows \ {r})

RECURSIVE Reverse(_)
Reverse(s) == IF s = <<>> THEN <<>> ELSE Reverse(Tail(s)) \o <<Head(s)>>

\* ORDER BY created_at DESC
SortDesc(rows) == Reverse(SortAsc(rows))

\* loadOrCreateSession's select: the id of the latest session, NoId when none
LatestSession(uid, docId) ==
  LET found == SortDesc({s \in chat_sessions :
                           /\ SessSelectPolicy(uid, s)
                           /\ s.document_id = docId
                           /\ s.user_id = uid})
  IN IF found = <<>> THEN NoId ELSE found[1].id

\* loadMessages' select
MessagesOf(uid, sessId) ==
  SortAsc({m \in chat_messages :
             MsgSelectPolicy(uid, m, chat_sessions) /\ m.session_id = sessId})

\* loadDocuments' select
DocumentsOf(uid) == SortDesc({d \in documents : DocSelectPolicy(uid, d)})

(***************************************************************************)
(* Handler runs in flight.                                                 *)
(***************************************************************************)
NoRow ==
  [id |-> NoId, session_id |-> NoId, role |-> "", content |-> <<>>, created_at |-> 0]

NoSend ==
  [pc |-> "idle", sess |-> NoId, content |-> <<>>, msg |-> <<>>, st |-> "idle",
   row |-> NoRow, saved |-> NoRow]

NoApi == [actor |-> NoId, op |-> "none", rows |-> {}]

Add(bag, r) == bag (+) SetToBag({r})
Remove(bag, r) == bag (-) SetToBag({r})

InFlight ==
  BagCardinality(locRuns) + BagCardinality(lmRuns) + BagCardinality(upRuns)
  + BagCardinality(delRuns) + BagCardinality(ldRuns)
  + (IF send = NoSend THEN 0 ELSE 1)

\* the user starts another handler only while fewer than MaxRuns are in flight
CanStart == InFlight < MaxRuns

Init ==
  /\ documents = {} /\ chat_sessions = {} /\ chat_messages = {}
  /\ now = 1 /\ nDocs = 0 /\ nSessions = 0 /\ nMsgs = 0
  /\ uiDocuments = <<>> /\ selectedDocId = NoId /\ selectedDocContent = <<>>
  /\ messages = <<>> /\ input = <<>> /\ loading = FALSE /\ sessionId = NoId
  /\ uploading = FALSE /\ toast = "none"
  /\ locRuns = EmptyBag /\ lmRuns = EmptyBag /\ send = NoSend
  /\ upRuns = EmptyBag /\ delRuns = EmptyBag
  \* Dashboard's mount effect has called loadDocuments()
  /\ ldRuns = SetToBag({[st |-> "pending", val |-> <<>>]})
  /\ api = NoApi
  /\ used = [sel |-> 0, up |-> 0, del |-> 0, snd |-> 0]
  /\ visit \in Visits

(***************************************************************************)
(* Dashboard.                                                              *)
(***************************************************************************)
\* useEffect([selectedDocId, documents]): the content of the selected document
DocContentEffect(docs, sel, old) ==
  IF sel # NoId /\ \E i \in 1..Len(docs) : docs[i].id = sel
  THEN docs[CHOOSE i \in 1..Len(docs) : docs[i].id = sel].content
  ELSE old

\* the server executes loadDocuments' select
LoadDocumentsExec ==
  \E r \in BagToSet(ldRuns) : \E ok \in BOOLEAN :
    /\ r.st = "pending"
    /\ ldRuns' = Add(Remove(ldRuns, r),
                     IF ok THEN [st |-> "ok", val |-> DocumentsOf(AppUser)]
                     ELSE [st |-> "err", val |-> <<>>])
    /\ toast' = "none"
    /\ UNCHANGED <<storage, dashboard, chat, uploading, api, used, visit>>
    /\ UNCHANGED <<locRuns, lmRuns, send, upRuns, delRuns>>

\* loadDocuments continues with the response
LoadDocumentsDone ==
  \E r \in BagToSet(ldRuns) :
    /\ r.st # "pending"
    /\ ldRuns' = Remove(ldRuns, r)
    /\ IF r.st = "err"
       THEN /\ toast' = "Error loading documents"
            /\ UNCHANGED dashboard
       ELSE /\ toast' = "none"
            /\ uiDocuments' = r.val
            /\ selectedDocContent' =
                 DocContentEffect(r.val, selectedDocId, selectedDocContent)
            /\ UNCHANGED selectedDocId
    /\ UNCHANGED <<storage, chat, uploading, api, used, visit>>
    /\ UNCHANGED <<locRuns, lmRuns, send, upRuns, delRuns>>

\* onSelectDoc(doc.id) on a row of the sidebar; ChatInterface's
\* useEffect([documentId]) then calls loadOrCreateSession()
SelectDoc(d) ==
  /\ CanStart /\ used.sel < visit.sel
  /\ used' = [used EXCEPT !.sel = @ + 1]
  /\ \E i \in 1..Len(uiDocuments) : uiDocuments[i].id = d
  /\ d # selectedDocId
  /\ selectedDocId' = d
  /\ selectedDocContent' = DocContentEffect(uiDocuments, d, selectedDocContent)
  /\ locRuns' = Add(locRuns, [doc |-> d, pc |-> "getUser", st |-> "pending",
                              val |-> NoId])
  /\ toast' = "none"
  /\ UNCHANGED <<storage, uiDocuments, chat, uploading, api, visit>>
  /\ UNCHANGED <<lmRuns, send, upRuns, delRuns, ldRuns>>

(***************************************************************************)
(* ChatInterface: loadOrCreateSession and loadMessages.                    *)
(***************************************************************************)
\* supabase.auth.getUser() returns; without a user the run returns silently
LocGetUser ==
  \E r \in BagToSet(locRuns) : \E user \in {AppUser, NoId} :
    /\ r.pc = "getUser"
    /\ locRuns' = IF user = NoId THEN Remove(locRuns, r)
                  ELSE Add(Remove(locRuns, r), [r EXCEPT !.pc = "select"])
    /\ toast' = "none"
    /\ UNCHANGED <<storage, dashboard, chat, uploading, api, used, visit>>
    /\ UNCHANGED <<lmRuns, send, upRuns, delRuns, ldRuns>>

\* the server executes the select of the latest session
LocSelectExec ==
  \E r \in BagToSet(locRuns) : \E ok \in BOOLEAN :
    /\ r.pc = "select" /\ r.st = "pending"
    /\ locRuns' = Add(Remove(locRuns, r),
                      IF ok
                      THEN [r EXCEPT !.st = "ok",
                                     !.val = LatestSession(AppUser, r.doc)]
                      ELSE [r EXCEPT !.st = "err"])
    /\ toast' = "none"
    /\ UNCHANGED <<storage, dashboard, chat, uploading, api, used, visit>>
    /\ UNCHANGED <<lmRuns, send, upRuns, delRuns, ldRuns>>

\* loadOrCreateSession continues with { data: sessions }: the error of the
\* select is not read, a failed select has sessions = null
LocSelectDone ==
  \E r \in BagToSet(locRuns) :
    /\ r.pc = "select" /\ r.st # "pending"
    /\ IF r.st = "ok" /\ r.val # NoId
       THEN /\ sessionId' = r.val
            /\ locRuns' = Remove(locRuns, r)
            \* loadMessages(sessions[0].id)
            /\ lmRuns' = Add(lmRuns, [sess |-> r.val, st |-> "pending",
                                      val |-> <<>>])
       ELSE /\ locRuns' = Add(Remove(locRuns, r),
                              [r EXCEPT !.pc = "insert", !.st = "pending",
                                        !.val = NoId])
            /\ UNCHANGED <<sessionId, lmRuns>>
    /\ toast' = "none"
    /\ UNCHANGED <<storage, dashboard, messages, input, loading, uploading, api, used, visit>>
    /\ UNCHANGED <<send, upRuns, delRuns, ldRuns>>

\* the row loadOrCreateSession inserts
NewSession(uid, docId) ==
  [id |-> nSessions + 1, user_id |-> uid, document_id |-> docId,
   created_at |-> now]

\* the server executes the insert into chat_sessions
LocInsertExec ==
  \E r \in BagToSet(locRuns) : \E ok \in BOOLEAN :
    /\ r.pc = "insert" /\ r.st = "pending"
    /\ LET row == NewSession(AppUser, r.doc) IN
       IF /\ ok /\ nSessions < MaxSessions
          /\ SessInsertPolicy(AppUser, row) /\ SessFkOk(row, documents)
       THEN /\ chat_sessions' = chat_sessions \cup {row}
            /\ nSessions' = nSessions + 1
            /\ now' = now + 1
            /\ locRuns' = Add(Remove(locRuns, r),
                              [r EXCEPT !.st = "ok", !.val = row.id])
       ELSE /\ locRuns' = Add(Remove(locRuns, r), [r EXCEPT !.st = "err"])
            /\ UNCHANGED <<chat_sessions, nSessions, now>>
    /\ toast' = "none"
    /\ UNCHANGED <<documents, chat_messages, nDocs, nMsgs>>
    /\ UNCHANGED <<dashboard, chat, uploading, api, used, visit>>
    /\ UNCHANGED <<lmRuns, send, upRuns, delRuns, ldRuns>>

\* loadOrCreateSession continues with { data: newSession, error }
LocInsertDone ==
  \E r \in BagToSet(locRuns) :
    /\ r.pc = "insert" /\ r.st # "pending"
    /\ locRuns' = Remove(locRuns, r)
    /\ IF r.st = "err"
       THEN /\ toast' = "Session error"
            /\ UNCHANGED <<sessionId, messages>>
       ELSE /\ toast' = "none"
            /\ sessionId' = r.val
            /\ messages' = <<>>
    /\ UNCHANGED <<storage, dashboard, input, loading, uploading, api, used, visit>>
    /\ UNCHANGED <<lmRuns, send, upRuns, delRuns, ldRuns>>

\* the server executes loadMessages' select
LoadMessagesExec ==
  \E r \in BagToSet(lmRuns) : \E ok \in BOOLEAN :
    /\ r.st = "pending"
    /\ lmRuns' = Add(Remove(lmRuns, r),
                     IF ok
                     THEN [r EXCEPT !.st = "ok",
                                    !.val = MessagesOf(AppUser, r.sess)]
                     ELSE [r EXCEPT !.st = "err"])
    /\ toast' = "none"
    /\ UNCHANGED <<storage, dashboard, chat, uploading, api, used, visit>>
    /\ UNCHANGED <<locRuns, send, upRuns, delRuns, ldRuns>>

\* loadMessages continues with { data, error }
LoadMessagesDone ==
  \E r \in BagToSet(lmRuns) :
    /\ r.st # "pending"
    /\ lmRuns' = Remove(lmRuns, r)
    /\ IF r.st = "err"
       THEN /\ toast' = "Error loading messages"
            /\ UNCHANGED messages
       ELSE /\ toast' = "none"
            /\ messages' = r.val
    /\ UNCHANGED <<storage, dashboard, input, loading, sessionId, uploading, api, used, visit>>
    /\ UNCHANGED <<locRuns, send, upRuns, delRuns, ldRuns>>

(***************************************************************************)
(* ChatInterface: the input and handleSend.                                *)
(***************************************************************************)
\* the chat input without disabled={loading}
MutSendEnabled == selectedDocId # NoId

\* the chat input is rendered for a selected document and disabled while
\* loading
SendEnabled == selectedDocId # NoId /\ ~loading

\* onChange of the input
TypeInput(s) ==
  /\ SendEnabled
  /\ input # s
  /\ input' = s
  /\ toast' = "none"
  /\ UNCHANGED <<storage, dashboard, messages, loading, sessionId, uploading, api, used, visit>>
  /\ UNCHANGED runs

\* the guard of handleSend without !sessionId
MutSendGuard(inp, sess, content) == Trim(inp) # <<>> /\ content # <<>>

\* the guard of handleSend: if (!input.trim() || !sessionId || !documentContent) return
SendGuard(inp, sess, content) == Trim(inp) # <<>> /\ sess # NoId /\ content # <<>>

\* Enter in the input (or the button): handleSend up to its first await, or
\* its early return; the closure keeps sessionId and documentContent of the
\* render the event came from
HandleSend ==
  /\ CanStart /\ used.snd < visit.snd
  /\ used' = [used EXCEPT !.snd = @ + 1]
  /\ SendEnabled
  /\ IF SendGuard(input, sessionId, selectedDocContent)
     THEN /\ send' = [pc |-> "userInsert", sess |-> sessionId,
                      content |-> selectedDocContent, msg |-> Trim(input),
                      st |-> "pending", row |-> NoRow, saved |-> NoRow]
          /\ input' = <<>>
          /\ loading' = TRUE
     ELSE UNCHANGED <<send, input, loading>>
  /\ toast' = "none"
  /\ UNCHANGED <<storage, dashboard, messages, sessionId, uploading, api, visit>>
  /\ UNCHANGED <<locRuns, lmRuns, upRuns, delRuns, ldRuns>>

\* the row an insert into chat_messages makes
NewMessage(sessId, role, content) ==
  [id |-> nMsgs + 1, session_id |-> sessId, role |-> role, content |-> content,
   created_at |-> now]

\* the server executes an insert into chat_messages for the run at pc
MessageInsertExec(pc, role, content) ==
  \E ok \in BOOLEAN :
    /\ send.pc = pc /\ send.st = "pending"
    /\ LET row == NewMessage(send.sess, role, content) IN
       IF /\ ok /\ nMsgs < MaxMsgs
          /\ MsgInsertPolicy(AppUser, row, chat_sessions)
          /\ MsgFkOk(row, chat_sessions)
       THEN /\ chat_messages' = chat_messages \cup {row}
            /\ nMsgs' = nMsgs + 1
            /\ now' = now + 1
            /\ send' = [send EXCEPT !.st = "ok", !.row = row]
       ELSE /\ send' = [send EXCEPT !.st = "err"]
            /\ UNCHANGED <<chat_messages, nMsgs, now>>
    /\ toast' = "none"
    /\ UNCHANGED <<documents, chat_sessions, nDocs, nSessions>>
    /\ UNCHANGED <<dashboard, chat, uploading, api, used, visit>>
    /\ UNCHANGED <<locRuns, lmRuns, upRuns, delRuns, ldRuns>>

\* handleSend's catch without the finally block
MutSendFail ==
  /\ toast' = "Error"
  /\ send' = NoSend
  /\ UNCHANGED <<messages, loading>>

\* catch: one toast; finally: setLoading(false)
SendFail ==
  /\ toast' = "Error"
  /\ loading' = FALSE
  /\ send' = NoSend
  /\ UNCHANGED messages

\* handleSend storing the user's text with role "assistant"
MutSendUserInsertExec == MessageInsertExec("userInsert", "assistant", send.msg)

\* the server executes the insert of the user message
SendUserInsertExec == MessageInsertExec("userInsert", "user", send.msg)

\* handleSend continues with { data: savedUserMsg, error: userError } and
\* invokes chat-with-document
SendUserInsertDone ==
  /\ send.pc = "userInsert" /\ send.st \in {"ok", "err"}
  /\ IF send.st = "err"
     THEN SendFail
     ELSE /\ messages' = Append(messages, send.row)
          /\ send' = [send EXCEPT !.pc = "invoke", !.st = "pending",
                                   !.row = NoRow, !.saved = send.row]
          /\ toast' = "none"
          /\ UNCHANGED loading
  /\ UNCHANGED <<storage, dashboard, input, sessionId, uploading, api, used, visit>>
  /\ UNCHANGED <<locRuns, lmRuns, upRuns, delRuns, ldRuns>>

\* chat-with-document answers or fails
SendInvokeExec ==
  \E ok \in BOOLEAN :
    /\ send.pc = "invoke" /\ send.st = "pending"
    /\ send' = [send EXCEPT !.st = IF ok THEN "ok" ELSE "err"]
    /\ toast' = "none"
    /\ UNCHANGED <<storage, dashboard, chat, uploading, api, used, visit>>
    /\ UNCHANGED <<locRuns, lmRuns, upRuns, delRuns, ldRuns>>

\* handleSend without "if (error) throw error" after the invocation
MutSendInvokeDone ==
  /\ send.pc = "invoke" /\ send.st \in {"ok", "err"}
  /\ send' = [send EXCEPT !.pc = "assistantInsert", !.st = "pending"]
  /\ toast' = "none"
  /\ UNCHANGED <<loading, messages>>
  /\ UNCHANGED <<storage, dashboard, input, sessionId, uploading, api, used, visit>>
  /\ UNCHANGED <<locRuns, lmRuns, upRuns, delRuns, ldRuns>>

\* handleSend continues with { data, error } of supabase.functions.invoke
SendInvokeDone ==
  /\ send.pc = "invoke" /\ send.st \in {"ok", "err"}
  /\ IF send.st = "err"
     THEN SendFail
     ELSE /\ send' = [send EXCEPT !.pc = "assistantInsert", !.st = "pending"]
          /\ toast' = "none"
          /\ UNCHANGED <<loading, messages>>
  /\ UNCHANGED <<storage, dashboard, input, sessionId, uploading, api, used, visit>>
  /\ UNCHANGED <<locRuns, lmRuns, upRuns, delRuns, ldRuns>>

SendAssistantInsertExec == MessageInsertExec("assistantInsert", "assistant", Answer)

\* handleSend continues with { data: savedAssistantMsg, error: assistantError }
SendAssistantInsertDone ==
  /\ send.pc = "assistantInsert" /\ send.st \in {"ok", "err"}
  /\ IF send.st = "err"
     THEN SendFail
     ELSE /\ messages' = Append(messages, send.row)
          /\ send' = NoSend
          /\ loading' = FALSE
          /\ toast' = "none"
  /\ UNCHANGED <<storage, dashboard, input, sessionId, uploading, api, used, visit>>
  /\ UNCHANGED <<locRuns, lmRuns, upRuns, delRuns, ldRuns>>

(***************************************************************************)
(* DocumentSidebar: handleFileUpload and handleDelete.                     *)
(***************************************************************************)
\* onChange of the file input: setUploading(true)
HandleFileUploadStart(f) ==
  /\ CanStart /\ used.up < visit.up
  /\ used' = [used EXCEPT !.up = @ + 1]
  /\ uploading' = TRUE
  /\ upRuns' = Add(upRuns, [file |-> f, pc |-> "read", text |-> <<>>,
                            st |-> "pending"])
  /\ toast' = "none"
  /\ UNCHANGED <<storage, dashboard, chat, api, visit>>
  /\ UNCHANGED <<locRuns, lmRuns, send, delRuns, ldRuns>>

\* handleFileUpload trimming the text of every file, as extractTextFromPDF does
MutFileText(f) == IF f.type = PdfType THEN extractTextFromPDF(f) ELSE Trim(f.text)

\* the text handleFileUpload reads from the file
FileText(f) == IF f.type = PdfType THEN extractTextFromPDF(f) ELSE f.text

\* catch: one toast; finally: setUploading(false)
UploadFail(r) ==
  /\ upRuns' = Remove(upRuns, r)
  /\ toast' = "Upload failed"
  /\ uploading' = FALSE
  /\ UNCHANGED ldRuns

\* extractTextFromPDF(file) or file.text() returns or throws
UploadRead ==
  \E r \in BagToSet(upRuns) : \E ok \in BOOLEAN :
    /\ r.pc = "read"
    /\ IF ok
       THEN /\ upRuns' = Add(Remove(upRuns, r),
                             [r EXCEPT !.pc = "getUser", !.text = FileText(r.file)])
            /\ toast' = "none"
            /\ UNCHANGED <<uploading, ldRuns>>
       ELSE UploadFail(r)
    /\ UNCHANGED <<storage, dashboard, chat, api, used, visit>>
    /\ UNCHANGED <<locRuns, lmRuns, send, delRuns>>

\* supabase.auth.getUser() returns; without a user "Not authenticated" is thrown
UploadGetUser ==
  \E r \in BagToSet(upRuns) : \E user \in {AppUser, NoId} :
    /\ r.pc = "getUser"
    /\ IF user # NoId
       THEN /\ upRuns' = Add(Remove(upRuns, r), [r EXCEPT !.pc = "insert"])
            /\ toast' = "none"
            /\ UNCHANGED <<uploading, ldRuns>>
       ELSE UploadFail(r)
    /\ UNCHANGED <<storage, dashboard, chat, api, used, visit>>
    /\ UNCHANGED <<locRuns, lmRuns, send, delRuns>>

\* the row handleFileUpload inserts
NewDocument(uid, f, text) ==
  [id |-> nDocs + 1, user_id |-> uid, title |-> f.name, content |-> text,
   file_type |-> f.type, created_at |-> now]

\* the server executes the insert into documents
UploadInsertExec ==
  \E r \in BagToSet(upRuns) : \E ok \in BOOLEAN :
    /\ r.pc = "insert" /\ r.st = "pending"
    /\ LET row == NewDocument(AppUser, r.file, r.text) IN
       IF ok /\ nDocs < MaxDocs /\ DocInsertPolicy(AppUser, row)
       THEN /\ documents' = documents \cup {row}
            /\ nDocs' = nDocs + 1
            /\ now' = now + 1
            /\ upRuns' = Add(Remove(upRuns, r), [r EXCEPT !.st = "ok"])
       ELSE /\ upRuns' = Add(Remove(upRuns, r), [r EXCEPT !.st = "err"])
            /\ UNCHANGED <<documents, nDocs, now>>
    /\ toast' = "none"
    /\ UNCHANGED <<chat_sessions, chat_messages, nSessions, nMsgs>>
    /\ UNCHANGED <<dashboard, chat, uploading, api, used, visit>>
    /\ UNCHANGED <<locRuns, lmRuns, send, delRuns, ldRuns>>

\* handleFileUpload continues with { error }; onDocumentsChange() is loadDocuments()
UploadInsertDone ==
  \E r \in BagToSet(upRuns) :
    /\ r.pc = "insert" /\ r.st # "pending"
    /\ IF r.st = "err"
       THEN UploadFail(r)
       ELSE /\ upRuns' = Remove(upRuns, r)
            /\ toast' = "Document uploaded successfully!"
            /\ ldRuns' = Add(ldRuns, [st |-> "pending", val |-> <<>>])
            /\ uploading' = FALSE
    /\ UNCHANGED <<storage, dashboard, chat, api, used, visit>>
    /\ UNCHANGED <<locRuns, lmRuns, send, delRuns>>

\* the trash button of a row of the sidebar: handleDelete(doc.id)
HandleDeleteStart(d) ==
  /\ CanStart /\ used.del < visit.del
  /\ used' = [used EXCEPT !.del = @ + 1]
  /\ \E i \in 1..Len(uiDocuments) : uiDocuments[i].id = d
  /\ delRuns' = Add(delRuns, [id |-> d, st |-> "pending"])
  /\ toast' = "none"
  /\ UNCHANGED <<storage, dashboard, chat, uploading, api, visit>>
  /\ UNCHANGED <<locRuns, lmRuns, send, upRuns, ldRuns>>

\* a delete that blanks the row instead of removing it
MutDocumentsAfterDelete(uid, d) ==
  {IF x.id = d /\ DocDeletePolicy(uid, x) THEN [x EXCEPT !.content = <<>>] ELSE x :
     x \in documents}

\* DELETE FROM documents WHERE id = d, as uid
DocumentsAfterDelete(uid, d) ==
  {x \in documents : ~(x.id = d /\ DocDeletePolicy(uid, x))}

\* the server executes the delete; the foreign keys cascade
DeleteExec ==
  \E r \in BagToSet(delRuns) : \E ok \in BOOLEAN :
    /\ r.st = "pending"
    /\ IF ok
       THEN LET docs == DocumentsAfterDelete(AppUser, r.id)
                sess == CascadeSessions(docs, chat_sessions)
            IN /\ documents' = docs
               /\ chat_sessions' = sess
               /\ chat_messages' = CascadeMessages(sess, chat_messages)
               /\ delRuns' = Add(Remove(delRuns, r), [r EXCEPT !.st = "ok"])
       ELSE /\ delRuns' = Add(Remove(delRuns, r), [r EXCEPT !.st = "err"])
            /\ UNCHANGED <<documents, chat_sessions, chat_messages>>
    /\ toast' = "none"
    /\ UNCHANGED <<now, nDocs, nSessions, nMsgs>>
    /\ UNCHANGED <<dashboard, chat, uploading, api, used, visit>>
    /\ UNCHANGED <<locRuns, lmRuns, send, upRuns, ldRuns>>

\* handleDelete continues with { error }
DeleteDone ==
  \E r \in BagToSet(delRuns) :
    /\ r.st # "pending"
    /\ delRuns' = Remove(delRuns, r)
    /\ IF r.st = "err"
       THEN /\ toast' = "Delete failed"
            /\ UNCHANGED ldRuns
       ELSE /\ toast' = "Document deleted"
            /\ ldRuns' = Add(ldRuns, [st |-> "pending", val |-> <<>>])
    /\ UNCHANGED <<storage, dashboard, chat, uploading, api, used, visit>>
    /\ UNCHANGED <<locRuns, lmRuns, send, upRuns>>

(***************************************************************************)
(* The application.                                                        *)
(***************************************************************************)
DocIds == 1..(MaxDocs + 1)

Next ==
  \/ LoadDocumentsExec
  \/ LoadDocumentsDone
  \/ \E d \in DocIds : SelectDoc(d)
  \/ LocGetUser
  \/ LocSelectExec
  \/ LocSelectDone
  \/ LocInsertExec
  \/ LocInsertDone
  \/ LoadMessagesExec
  \/ LoadMessagesDone
  \/ \E s \in Inputs : TypeInput(s)
  \/ HandleSend
  \/ SendUserInsertExec
  \/ SendUserInsertDone
  \/ SendInvokeExec
  \/ SendInvokeDone
  \/ SendAssistantInsertExec
  \/ SendAssistantInsertDone
  \/ \E f \in Files : HandleFileUploadStart(f)
  \/ UploadRead
  \/ UploadGetUser
  \/ UploadInsertExec
  \/ UploadInsertDone
  \/ \E d \in DocIds : HandleDeleteStart(d)
  \/ DeleteExec
  \/ DeleteDone

Spec == Init /\ [][Next]_vars

\* every awaited call of handleSend and handleFileUpload returns and the
\* continuation of the handler then runs
CallsReturn ==
  /\ WF_vars(SendUserInsertExec) /\ WF_vars(SendUserInsertDone)
  /\ WF_vars(SendInvokeExec) /\ WF_vars(SendInvokeDone)
  /\ WF_vars(SendAssistantInsertExec) /\ WF_vars(SendAssistantInsertDone)
  /\ WF_vars(UploadRead) /\ WF_vars(UploadGetUser)
  /\ WF_vars(UploadInsertExec) /\ WF_vars(UploadInsertDone)

SpecLive == Init /\ [][Next]_vars /\ CallsReturn

(***************************************************************************)
(* The storage API under the row-level policies: what any authenticated    *)
(* user can do to the three tables with requests of their own.             *)
(***************************************************************************)
\* chat_sessions has no UPDATE policy; chat_messages has no UPDATE and no
\* DELETE policy: with row level security enabled no row qualifies
SessUpdatePolicy(uid, row) == FALSE
MsgUpdatePolicy(uid, row) == FALSE
MsgDeletePolicy(uid, row) == FALSE

ApiTexts == { <<"a">>, <<"z">> }
Roles == {"user"}
ApiMaxMsgs == 1     \* chat_messages rows inserted through the API
SessIds == 1..(MaxSessions + 1)
MsgIds == 1..(MaxMsgs + 1)

ApiFrame == UNCHANGED <<dashboard, chat, uploading, toast, runs, used, visit>>

ApiSelectDocuments(u) ==
  /\ api' = [actor |-> u, op |-> "select documents",
             rows |-> {d \in documents : DocSelectPolicy(u, d)}]
  /\ UNCHANGED storage /\ ApiFrame

ApiInsertDocument(u, owner, text) ==
  LET row == [id |-> nDocs + 1, user_id |-> owner, title |-> "api",
              content |-> text, file_type |-> "text/plain", created_at |-> now]
  IN /\ nDocs < MaxDocs
     /\ IF DocInsertPolicy(u, row)
        THEN /\ documents' = documents \cup {row}
             /\ nDocs' = nDocs + 1 /\ now' = now + 1
             /\ api' = [actor |-> u, op |-> "insert documents", rows |-> {row}]
        ELSE /\ UNCHANGED <<documents, nDocs, now>>
             /\ api' = [actor |-> u, op |-> "insert documents", rows |-> {}]
     /\ UNCHANGED <<chat_sessions, chat_messages, nSessions, nMsgs>> /\ ApiFrame

ApiUpdateDocument(u, d, owner, text) ==
  LET old == {x \in documents : x.id = d}
      new == {[x EXCEPT !.user_id = owner, !.content = text] : x \in old}
      ok == \A x \in old :
              DocUpdatePolicy(u, x, [x EXCEPT !.user_id = owner, !.content = text])
  IN /\ old # {}
     /\ IF ok
        THEN /\ documents' = (documents \ old) \cup new
             /\ api' = [actor |-> u, op |-> "update documents", rows |-> new]
        ELSE /\ UNCHANGED documents
             /\ api' = [actor |-> u, op |-> "update documents", rows |-> {}]
     /\ UNCHANGED <<chat_sessions, chat_messages, now, nDocs, nSessions, nMsgs>>
     /\ ApiFrame

ApiDeleteDocument(u, d) ==
  LET docs == DocumentsAfterDelete(u, d)
      sess == CascadeSessions(docs, chat_sessions)
  IN /\ \E x \in documents : x.id = d
     /\ documents' = docs
     /\ chat_sessions' = sess
     /\ chat_messages' = CascadeMessages(sess, chat_messages)
     /\ api' = [actor |-> u, op |-> "delete documents", rows |-> documents \ docs]
     /\ UNCHANGED <<now, nDocs, nSessions, nMsgs>> /\ ApiFrame

ApiSelectSessions(u) ==
  /\ api' = [actor |-> u, op |-> "select chat_sessions",
             rows |-> {x \in chat_sessions : SessSelectPolicy(u, x)}]
  /\ UNCHANGED storage /\ ApiFrame

ApiInsertSession(u, owner, d) ==
  LET row == NewSession(owner, d)
  IN /\ nSessions < MaxSessions
     /\ IF SessInsertPolicy(u, row) /\ SessFkOk(row, documents)
        THEN /\ chat_sessions' = chat_sessions \cup {row}
             /\ nSessions' = nSessions + 1 /\ now' = now + 1
             /\ api' = [actor |-> u, op |-> "insert chat_sessions", rows |-> {row}]
        ELSE /\ UNCHANGED <<chat_sessions, nSessions, now>>
             /\ api' = [actor |-> u, op |-> "insert chat_sessions", rows |-> {}]
     /\ UNCHANGED <<documents, chat_messages, nDocs, nMsgs>> /\ ApiFrame

ApiUpdateSession(u, sid, owner) ==
  LET old == {x \in chat_sessions : x.id = sid /\ SessUpdatePolicy(u, x)}
      new == {[x EXCEPT !.user_id = owner] : x \in old}
  IN /\ \E x \in chat_sessions : x.id = sid
     /\ chat_sessions' = (chat_sessions \ old) \cup new
     /\ api' = [actor |-> u, op |-> "update chat_sessions", rows |-> new]
     /\ UNCHANGED <<documents, chat_messages, now, nDocs, nSessions, nMsgs>>
     /\ ApiFrame

ApiDeleteSession(u, sid) ==
  LET sess == {x \in chat_sessions : ~(x.id = sid /\ SessDeletePolicy(u, x))}
  IN /\ \E x \in chat_sessions : x.id = sid
     /\ chat_sessions' = sess
     /\ chat_messages' = CascadeMessages(sess, chat_messages)
     /\ api' = [actor |-> u, op |-> "delete chat_sessions",
                rows |-> chat_sessions \ sess]
     /\ UNCHANGED <<documents, now, nDocs, nSessions, nMsgs>> /\ ApiFrame

ApiSelectMessages(u) ==
  /\ api' = [actor |-> u, op |-> "select chat_messages",
             rows |-> {m \in chat_messages : MsgSelectPolicy(u, m, chat_sessions)}]
  /\ UNCHANGED storage /\ ApiFrame

ApiInsertMessage(u, sid, role) ==
  LET row == NewMessage(sid, role, Answer)
  IN /\ nMsgs < ApiMaxMsgs
     /\ IF MsgInsertPolicy(u, row, chat_sessions) /\ MsgFkOk(row, chat_sessions)
        THEN /\ chat_messages' = chat_messages \cup {row}
             /\ nMsgs' = nMsgs + 1 /\ now' = now + 1
             /\ api' = [actor |-> u, op |-> "insert chat_messages", rows |-> {row}]
        ELSE /\ UNCHANGED <<chat_messages, nMsgs, now>>
             /\ api' = [actor |-> u, op |-> "insert chat_messages", rows |-> {}]
     /\ UNCHANGED <<documents, chat_sessions, nDocs, nSessions>> /\ ApiFrame

ApiUpdateMessage(u, mid, text) ==
  LET old == {m \in chat_messages : m.id = mid /\ MsgUpdatePolicy(u, m)}
      new == {[m EXCEPT !.content = text] : m \in old}
  IN /\ \E m \in chat_messages : m.id = mid
     /\ chat_messages' = (chat_messages \ old) \cup new
     /\ api' = [actor |-> u, op |-> "update chat_messages", rows |-> new]
     /\ UNCHANGED <<documents, chat_sessions, now, nDocs, nSessions, nMsgs>>
     /\ ApiFrame

ApiDeleteMessage(u, mid) ==
  LET msgs == {m \in chat_messages : ~(m.id = mid /\ MsgDeletePolicy(u, m))}
  IN /\ \E m \in chat_messages : m.id = mid
     /\ chat_messages' = msgs
     /\ api' = [actor |-> u, op |-> "delete chat_messages",
                rows |-> chat_messages \ msgs]
     /\ UNCHANGED <<documents, chat_sessions, now, nDocs, nSessions, nMsgs>>
     /\ ApiFrame

NextRLS ==
  \/ \E u \in Users : ApiSelectDocuments(u)
  \/ \E u, owner \in Users : \E text \in ApiTexts : ApiInsertDocument(u, owner, text)
  \/ \E u, owner \in Users : \E d \in DocIds : \E text \in ApiTexts :
       ApiUpdateDocument(u, d, owner, text)
  \/ \E u \in Users : \E d \in DocIds : ApiDeleteDocument(u, d)
  \/ \E u \in Users : ApiSelectSessions(u)
  \/ \E u, owner \in Users : \E d \in DocIds : ApiInsertSession(u, owner, d)
  \/ \E u, owner \in Users : \E sid \in SessIds : ApiUpdateSession(u, sid, owner)
  \/ \E u \in Users : \E sid \in SessIds : ApiDeleteSession(u, sid)
  \/ \E u \in Users : ApiSelectMessages(u)
  \/ \E u \in Users : \E sid \in SessIds : \E role \in Roles :
       ApiInsertMessage(u, sid, role)
  \/ \E u \in Users : \E mid \in MsgIds : \E text \in ApiTexts :
       ApiUpdateMessage(u, mid, text)
  \/ \E u \in Users : \E mid \in MsgIds : ApiDeleteMessage(u, mid)

InitRLS == Init /\ visit.snd = BrowseSends

SpecRLS == InitRLS /\ [][NextRLS]_vars

(***************************************************************************)
(* Properties.                                                             *)
(***************************************************************************)
\* handleSend was triggered in this step
SendTriggered == used'.snd = used.snd + 1

\* run r of the bag was taken up in this step
Consumed(r, bag) == CopiesIn(r, bag') < CopiesIn(r, bag)

IsPrefix(a, b) == Len(a) <= Len(b) /\ SubSeq(b, 1, Len(a)) = a

\* C1: storage holds at most one chat_sessions row for each (user, document),
\* whatever selections the user made and however their runs overlapped.
C1_OneSessionPerDocument ==
  \A s, t \in chat_sessions :
    (s.user_id = t.user_id /\ s.document_id = t.document_id) => s = t

\* C2 as stated: handleSend triggered with a non-empty input while sessionId is
\* null goes on to create the session and store the message: it starts a run.
C2_SendCreatesSession ==
  [][(/\ SendTriggered /\ sessionId = NoId
      /\ Trim(input) # <<>> /\ selectedDocContent # <<>>)
       => (send' # NoSend /\ loading')]_vars

\* C2 as amended: handleSend triggered while sessionId is null returns at once
\* (no storage row, no request, input kept); chat_sessions rows are inserted
\* only by a loadOrCreateSession run; every message handleSend stores
\* references the existing session that was active when it was triggered.
C2_NoSessionNoSend ==
  [][/\ (SendTriggered /\ sessionId = NoId) => UNCHANGED <<storage, chat, runs>>
     /\ \A row \in chat_sessions' \ chat_sessions :
          \E r \in BagToSet(locRuns) :
            /\ r.pc = "insert" /\ r.st = "pending"
            /\ row = NewSession(AppUser, r.doc)
            /\ chat_sessions' = chat_sessions \cup {row}
     /\ \A m \in chat_messages' \ chat_messages :
          /\ send.sess # NoId /\ m.session_id = send.sess
          /\ \E x \in chat_sessions : x.id = m.session_id]_vars

C2_Witness ==
  /\ used.snd > 0 /\ sessionId = NoId /\ InFlight = 0
  /\ selectedDocId # NoId /\ Trim(input) # <<>> /\ selectedDocContent # <<>>
  /\ chat_sessions = {} /\ chat_messages = {}

\* an assistant row stored in the run's session after the run's user message
AssistantRowOf(run, msgs) ==
  \E m \in msgs : /\ m.role = "assistant" /\ m.session_id = run.sess
                  /\ m.created_at > run.saved.created_at

\* C3 as stated: when the user message was inserted and chat-with-document
\* fails, chat_messages afterwards holds that user message and no assistant
\* row of that send.
C3_FailedCallKeepsUserMessage ==
  [][(send.pc = "invoke" /\ send.st = "err" /\ send' # send)
       => (send.saved \in chat_messages' /\ ~AssistantRowOf(send, chat_messages'))]_vars

\* C3 as amended: when chat-with-document fails the run ends with one toast,
\* stores nothing more, and chat_messages holds the user message of that send
\* unless its session was removed with its document in the meantime.
C3_FailedCallKeepsUserMessageUnlessDeleted ==
  [][(send.pc = "invoke" /\ send.st = "err" /\ send' # send)
       => /\ send' = NoSend /\ toast' = "Error"
          /\ chat_messages' = chat_messages
          /\ ~AssistantRowOf(send, chat_messages')
          /\ (\E x \in chat_sessions' : x.id = send.sess)
               => send.saved \in chat_messages']_vars

C3_Witness ==
  /\ send.pc = "invoke" /\ send.st = "err"
  /\ send.saved \in chat_messages /\ send.saved.role = "user"

\* C4: every message references an existing session and every session an
\* existing document; once a delete of document d has succeeded no document,
\* session or message of d is left.
C4_CascadeDelete ==
  /\ \A m \in chat_messages : \E x \in chat_sessions : x.id = m.session_id
  /\ \A x \in chat_sessions : \E d \in documents : d.id = x.document_id
  /\ \A r \in BagToSet(delRuns) :
       r.st = "ok" =>
         /\ ~\E d \in documents : d.id = r.id
         /\ ~\E x \in chat_sessions : x.document_id = r.id

C4_Witness ==
  /\ \E r \in BagToSet(delRuns) : r.st = "ok"
  /\ nSessions > 0 /\ nMsgs > 1
  /\ chat_sessions = {} /\ chat_messages = {}

\* C5: while a session exists, what loadMessages returns for it only grows at
\* the end (every earlier result is a prefix of every later one), so no stored
\* message is changed or removed, and the messages come in the order they
\* were inserted.
C5_AppendOnlyInOrder ==
  /\ [](\A r \in BagToSet(lmRuns) :
          (r.st = "ok" /\ \E x \in chat_sessions : x.id = r.sess)
            => IsPrefix(r.val, MessagesOf(AppUser, r.sess)))
  /\ [][\A x \in chat_sessions \cap chat_sessions' :
          /\ IsPrefix(MessagesOf(AppUser, x.id), MessagesOf(AppUser, x.id)')
          /\ \A i, j \in 1..Len(MessagesOf(AppUser, x.id)') :
               i < j => MessagesOf(AppUser, x.id)'[i].id
                          < MessagesOf(AppUser, x.id)'[j].id]_vars

C5_Witness ==
  \E r \in BagToSet(lmRuns) :
    /\ r.st = "ok" /\ Len(r.val) >= 2
    /\ r.val = MessagesOf(AppUser, r.sess)

\* C6: a run whose storage or network call failed shows one toast, ends, and
\* issues no further request.
C6_FailuresSurfaced ==
  [][/\ \A r \in BagToSet(locRuns) :
          (r.st = "err" /\ Consumed(r, locRuns))
            => (toast' # "none" /\ InFlight' = InFlight - 1)
     /\ \A r \in BagToSet(lmRuns) :
          (r.st = "err" /\ Consumed(r, lmRuns))
            => (toast' # "none" /\ InFlight' = InFlight - 1)
     /\ \A r \in BagToSet(upRuns) :
          (r.st = "err" /\ Consumed(r, upRuns))
            => (toast' # "none" /\ InFlight' = InFlight - 1)
     /\ \A r \in BagToSet(delRuns) :
          (r.st = "err" /\ Consumed(r, delRuns))
            => (toast' # "none" /\ InFlight' = InFlight - 1)
     /\ \A r \in BagToSet(ldRuns) :
          (r.st = "err" /\ Consumed(r, ldRuns))
            => (toast' # "none" /\ InFlight' = InFlight - 1)
     /\ (send.st = "err" /\ send' # send)
          => (toast' # "none" /\ send' = NoSend)]_vars

\* C7: every row a request of user A reads, inserts, updates or deletes in
\* documents and chat_sessions has user_id = A, and every chat_messages row A
\* reads or inserts belongs to a session of A.
C7_OwnerOnly ==
  /\ [](api.op \in {"select documents", "select chat_sessions"}
          => \A r \in api.rows : r.user_id = api.actor)
  /\ [](api.op = "select chat_messages"
          => \A m \in api.rows :
               \E x \in chat_sessions : x.id = m.session_id /\ x.user_id = api.actor)
  /\ [][/\ \A r \in (documents' \ documents) \cup (documents \ documents') :
             r.user_id = api'.actor
        /\ \A r \in (chat_sessions' \ chat_sessions) \cup (chat_sessions \ chat_sessions') :
             r.user_id = api'.actor
        /\ \A m \in chat_messages' \ chat_messages :
             \E x \in chat_sessions : x.id = m.session_id /\ x.user_id = api'.actor]_vars

\* C8: a documents row appears only when the insert of a handleFileUpload run
\* succeeds, one row per run, with title = file name, user_id = the user and,
\* for a file that is not a PDF, content = the text of the file; a run that
\* fails leaves documents as it was.
C8_TextUploadExact ==
  [][/\ \A row \in documents' \ documents :
          \E r \in BagToSet(upRuns) :
            /\ r.pc = "insert" /\ r.st = "pending"
            /\ Consumed(r, upRuns)
            /\ CopiesIn([r EXCEPT !.st = "ok"], upRuns')
                 > CopiesIn([r EXCEPT !.st = "ok"], upRuns)
            /\ documents' = documents \cup {row}
            /\ row.title = r.file.name /\ row.user_id = AppUser
            /\ r.file.type # PdfType => row.content = r.file.text
     /\ \A r \in BagToSet(upRuns) :
          (r.st # "ok" /\ Consumed(r, upRuns)
             /\ CopiesIn([r EXCEPT !.st = "ok"], upRuns')
                  = CopiesIn([r EXCEPT !.st = "ok"], upRuns))
            => documents' = documents
     /\ toast' = "Upload failed" => documents' = documents]_vars

C8_Witness ==
  \E d \in documents :
    /\ d.title = "b.md" /\ d.content = <<" ", "b", "\n">> /\ d.user_id = AppUser
    /\ toast = "Document uploaded successfully!"

\* C9: a documents row keeps its content from its insertion to its deletion.
C9_ContentImmutable ==
  [][\A d \in documents : \A e \in documents' :
       d.id = e.id => e.content = d.content]_vars

C9_Witness ==
  /\ used.up = 2 /\ used.del = 1 /\ used.sel > 0
  /\ Cardinality(documents) = 1 /\ nDocs = 2 /\ nSessions > 0

\* C10 as stated: no two requests are outstanding at the same time.
C10_OneRequestAtATime == InFlight <= 1

\* C10 as amended: at most one handleSend is in flight: loading is true
\* exactly while a handleSend run is, and handleSend cannot be triggered while
\* loading is true; requests of the other handlers may be outstanding together
\* with it and with each other.
C10_OneSendAtATime ==
  /\ [](loading <=> send # NoSend)
  /\ [][loading => ~SendTriggered]_vars

C10_Witness == loading /\ InFlight >= 2

\* the number of rows with role among the first n of msgs
RoleCount(msgs, role, n) == Cardinality({i \in 1..n : msgs[i].role = role})

\* C11: in every session, in creation order, every prefix of the messages has
\* at least as many user messages as assistant messages and no two assistant
\* messages are adjacent; an assistant row is inserted only by a handleSend
\* whose user message is stored, in the same session, as the latest message.
C11_CausalAlternation ==
  /\ [](\A x \in chat_sessions :
          LET msgs == MessagesOf(AppUser, x.id) IN
          /\ \A n \in 1..Len(msgs) :
               RoleCount(msgs, "user", n) >= RoleCount(msgs, "assistant", n)
          /\ \A n \in 1..(Len(msgs) - 1) :
               ~(msgs[n].role = "assistant" /\ msgs[n + 1].role = "assistant"))
  /\ [][\A m \in chat_messages' \ chat_messages :
          m.role = "assistant" =>
            /\ send.saved \in chat_messages /\ send.saved.role = "user"
            /\ send.saved.session_id = m.session_id
            /\ send.saved.created_at < m.created_at
            /\ \A k \in chat_messages :
                 k.session_id = m.session_id
                   => k.created_at <= send.saved.created_at]_vars

\* a session holds a question whose call failed, then a question and its answer
C11_Witness ==
  \E x \in chat_sessions :
    LET msgs == MessagesOf(AppUser, x.id) IN
    /\ Len(msgs) = 3
    /\ msgs[1].role = "user" /\ msgs[2].role = "user"
    /\ msgs[3].role = "assistant"

\* C12: whenever no request is in flight, every displayed message whose
\* session is in storage belongs to a session of the selected document, and
\* the displayed messages are in storage order.
C12_DisplayedIsSelected ==
  InFlight = 0 =>
    /\ \A i \in 1..Len(messages) : \A x \in chat_sessions :
         x.id = messages[i].session_id => x.document_id = selectedDocId
    /\ \A i, j \in 1..Len(messages) :
         i < j => messages[i].created_at < messages[j].created_at

\* C13: the documentContent a handleSend forwards to chat-with-document is
\* the content of the document that the session of its message inserts
\* references, as long as that session and document are in storage.
C13_AnsweredAgainstSessionDocument ==
  send # NoSend =>
    \A x \in chat_sessions : \A d \in documents :
      (x.id = send.sess /\ d.id = x.document_id) => d.content = send.content

\* C14: every handleSend that set loading and every handleFileUpload that set
\* uploading sets it back to false, whether its calls succeed or fail, given
\* that every call returns: loading and uploading never stay true, every
\* upload run ends, the step that ends a run leaves its flag false, and
\* loading is true only while a handleSend run is in progress.
C14_BusyFlagsReleased ==
  /\ loading ~> ~loading
  /\ uploading ~> ~uploading
  /\ (upRuns # EmptyBag) ~> (upRuns = EmptyBag /\ ~uploading)
  /\ [](loading => send # NoSend)
  /\ [][(send # NoSend /\ send' = NoSend) => ~loading']_vars
  /\ [][BagCardinality(upRuns') < BagCardinality(upRuns) => ~uploading']_vars

\* a handleSend has failed after storing its message and an upload has
\* failed, and both flags are down again
C14_Witness ==
  /\ toast = "Upload failed" /\ ~uploading /\ upRuns = EmptyBag
  /\ ~loading /\ send = NoSend /\ nMsgs = 1 /\ used.snd = 1

====
